---- MODULE Spec2Model ----
(***************************************************************************)
(* Model of uni2ts/data/builder/simple_polars.py: the record generator     *)
(* made by _from_polars, the two dataset builders (build_dataset and       *)
(* load_dataset) and the driver build_datasets.                            *)
(*                                                                         *)
(* Library calls are modelled by what they do on the values the code hands *)
(* them:                                                                   *)
(*   - pl.when(c).then(x) without otherwise is null where c is false;      *)
(*   - pl.concat_list is null for a row in which any input list is null;   *)
(*   - LazyFrame.slice(offset, length) rejects a negative length and       *)
(*     clips the range to the frame;                                       *)
(*   - np.array(None) is an object array holding the one element None;     *)
(*   - ndarray.reshape((k, -1)) raises ValueError when k = 0 or when the   *)
(*     size is not a multiple of k;                                        *)
(*   - Dataset.from_generator splits the list-valued gen_kwargs into       *)
(*     contiguous groups, one per job, runs the generator once per job and *)
(*     concatenates the jobs' outputs in job order; an exception in any    *)
(*     job is raised to the caller;                                        *)
(*   - Python evaluates call arguments left to right.                      *)
(* Fractions are exact rationals num/den; on the grid used here (0, 1/2,   *)
(* 4/5, 1 and row counts up to a dozen) int(rows * fraction) in binary     *)
(* floating point gives the same integer.                                  *)
(***************************************************************************)
EXTENDS Integers, Sequences, FiniteSets, TLC

VARIABLES folder, storage, pc, main_args, call, phase, error,
          polars_files, jobs, io, loaded

vars == <<folder, storage, pc, main_args, call, phase, error,
          polars_files, jobs, io, loaded>>

\* Largest number of rows of a source file.
MaxRows == 4
\* Largest worker count a caller passes; also the machine's CPU count.
MaxWorkers == 2

Min(a, b) == IF a <= b THEN a ELSE b

(***************************************************************************)
(* Fractions (the float arguments offset, end, split_ratio).               *)
(***************************************************************************)
Frac(n, d) == [num |-> n, den |-> d]
Zero == Frac(0, 1)
One == Frac(1, 1)
Fractions == {Frac(0 - 1, 2), Zero, Frac(1, 2), Frac(4, 5), One, Frac(3, 2)}

\* f > 1.0 and f < 0.0
GreaterThanOne(f) == f.num > f.den
LessThanZero(f) == f.num < 0

\* int(rows * f): Python's int() truncates toward zero.
IntOfProduct(rows, f) ==
    LET n == rows * f.num
    IN  IF n >= 0 THEN n \div f.den ELSE 0 - ((0 - n) \div f.den)

(***************************************************************************)
(* freq values: strings, as the command line produces them, and the float  *)
(* 1.0 a programmatic caller can pass.                                     *)
(***************************************************************************)
StrFreq(s) == [type |-> "str", text |-> s]
FloatFreq(s) == [type |-> "float", text |-> s]
Freqs == {StrFreq("H"), StrFreq("1.0"), FloatFreq("1.0")}

\* args.freq == 1.0: a str never equals a float.
FreqEqualsOne(f) == f.type = "float" /\ f.text = "1.0"

(***************************************************************************)
(* Source rows and files.  A value column of a row is null or a sequence.  *)
(***************************************************************************)
columns == <<"c1", "c2">>
NumCols == Len(columns)

NullList == [null |-> TRUE, vals |-> <<>>]
SomeList(s) == [null |-> FALSE, vals |-> s]

ColSeq(i, c) == <<100 * i + 10 * c + 1, 100 * i + 10 * c + 2>>
Masks == [1..NumCols -> BOOLEAN]
FullMask == [c \in 1..NumCols |-> TRUE]

\* The row with index i (its timestamp list starts with i).
Row(i, mask) ==
    [ts |-> <<i>>,
     cols |-> [c \in 1..NumCols |-> IF mask[c] THEN SomeList(ColSeq(i, c)) ELSE NullList]]

CleanFile(n) == [i \in 1..n |-> Row(i - 1, FullMask)]
DefectFile(n, k, m) == [i \in 1..n |-> Row(i - 1, IF i = k THEN m ELSE FullMask)]

ParquetContents ==
    {CleanFile(n) : n \in 0..MaxRows}
    \cup {DefectFile(n, k, m) : n \in 1..MaxRows, k \in 1..MaxRows, m \in Masks}

Entry(name, isfile, suffix, rows) ==
    [name |-> name, is_file |-> isfile, suffix |-> suffix, rows |-> rows]

\* Entries every source directory of the model holds: a regular file with
\* another suffix and a subdirectory whose name ends in .parquet.
OtherEntries ==
    {Entry("notes.csv", TRUE, ".csv", <<>>), Entry("old.parquet", FALSE, ".parquet", <<>>)}

Folders ==
    {OtherEntries \cup a \cup b :
        a \in {{}} \cup {{Entry("a.parquet", TRUE, ".parquet", r)} : r \in ParquetContents},
        b \in {{}, {Entry("b.parquet", TRUE, ".parquet", CleanFile(MaxRows))}}}

FileRows(name) == (CHOOSE e \in folder : e.name = name).rows

(***************************************************************************)
(* The record generator: _from_polars and generator_function.              *)
(***************************************************************************)
\* Faulty variant: the check of end is missing.
FromPolarsErrorOffsetOnly(offset, end) ==
    IF GreaterThanOne(offset) \/ LessThanZero(offset) THEN "ValueError_offset" ELSE "none"

\* The validation of _from_polars: the error it raises, or "none".
FromPolarsError(offset, end) ==
    IF GreaterThanOne(offset) \/ LessThanZero(offset) THEN "ValueError_offset"
    ELSE IF GreaterThanOne(end) \/ LessThanZero(end) THEN "ValueError_end"
    ELSE "none"

\* pl.when(pl.col(c).is_not_null()).then(pl.col(c)): no otherwise branch, so
\* the result is null exactly where the column is null.
WhenNotNullThen(col) == IF ~col.null THEN col ELSE NullList

RECURSIVE ConcatUpTo(_, _)
ConcatUpTo(cols, n) ==
    IF n = 0 THEN <<>> ELSE ConcatUpTo(cols, n - 1) \o cols[n].vals

\* pl.concat_list(non_null_columns): null when any input list is null.
ConcatList(cols) ==
    IF \E c \in 1..Len(cols) : cols[c].null
    THEN NullList
    ELSE SomeList(ConcatUpTo(cols, Len(cols)))

RECURSIVE FoldFlags(_, _)
\* pl.fold(acc=0, acc + x, exprs=non_null_flags) over the first n columns.
FoldFlags(cols, n) ==
    IF n = 0 THEN 0
    ELSE FoldFlags(cols, n - 1) + (IF ~cols[n].null THEN 1 ELSE 0)

\* The three columns with_columns adds to a row.
WithColumns(row) ==
    [start |-> Head(row.ts),
     time_series |-> ConcatList([c \in 1..Len(row.cols) |-> WhenNotNullThen(row.cols[c])]),
     non_null_columns |-> FoldFlags(row.cols, Len(row.cols))]

\* np.array(x) of a list, or of None (dtype object: its one element is None).
NpArray(x) ==
    IF x.null
    THEN [dtype |-> "object", shape |-> <<>>, data |-> <<0>>]
    ELSE [dtype |-> "float64", shape |-> <<Len(x.vals)>>, data |-> x.vals]

\* a.reshape((k, -1))
Reshape(a, k) ==
    LET size == Len(a.data)
    IN  IF k = 0 THEN [ok |-> FALSE, val |-> a]
        ELSE IF size % k # 0 THEN [ok |-> FALSE, val |-> a]
        ELSE [ok |-> TRUE, val |-> [a EXCEPT !.shape = <<k, size \div k>>]]

\* The body of the row loop: the reshape and the yielded record.
RowData(row) ==
    LET r == WithColumns(row)
    IN  Reshape(NpArray(r.time_series), r.non_null_columns)

Record(shard, row, freq) ==
    [target |-> RowData(row).val,
     start |-> WithColumns(row).start,
     freq |-> freq,
     item_id |-> <<shard, row>>]

\* Faulty variant: the length is the end index, the offset is not subtracted.
SliceLengthNoOffset(rows, offset, end) == IntOfProduct(rows, end)

\* int(rows * offset) and int(rows * end) - offset_int
OffsetInt(rows, offset) == IntOfProduct(rows, offset)
SliceLength(rows, offset, end) == IntOfProduct(rows, end) - OffsetInt(rows, offset)

\* lf.slice(offset_int, length) for length >= 0: clipped to the frame.
Slice(rows, offset_int, length) ==
    SubSeq(rows, offset_int + 1, Min(offset_int + length, Len(rows)))

(***************************************************************************)
(* build_dataset (the same body in both builders).                         *)
(***************************************************************************)
DatasetName == "ds"
EvalSuffix == "_eval"
EvalDatasetName == DatasetName \o EvalSuffix
DatasetNames == {DatasetName, EvalDatasetName}

\* The dataset field of the builder of each variant.
BuilderDataset(b) == IF b = "eval" THEN EvalDatasetName ELSE DatasetName

Absent == [exists |-> FALSE, dataset_name |-> "", records |-> <<>>]
Persisted(name, recs) == [exists |-> TRUE, dataset_name |-> name, records |-> recs]

NoCall ==
    [builder |-> "none", dataset |-> "", offset |-> Zero, end |-> Zero,
     freq |-> StrFreq("H"), num_workers |-> 0]
NoArgs == [invoked |-> FALSE, split_ratio |-> Zero, freq |-> StrFreq("H")]
NoIo == [listed |-> FALSE, scanned |-> {}]

\* A transform_map: the factory stored under each dataset name, or "missing"
\* for a name that is not a key.
Factories == {"f1", "f2"}
TransformMaps ==
    {m \in [DatasetNames -> Factories \cup {"missing"}] :
        m[DatasetName] # "f2" /\ m[EvalDatasetName] # "f1"}
HasKey(transform_map, name) == transform_map[name] # "missing"
EmptyMap == [n \in DatasetNames |-> "missing"]

NoLoad == [builder |-> "none", transform_map |-> EmptyMap, error |-> "none",
           transform |-> "none", view |-> "none", dataset |-> Absent]

\* path_object.is_file() and path_object.suffix == ".parquet"
IsPolarsFile(e) == e.is_file /\ e.suffix = ".parquet"
MatchingNames == {e.name : e \in {x \in folder : IsPolarsFile(x)}}

\* iterdir yields the entries in an arbitrary order.
Orders(S) ==
    {s \in [1..Cardinality(S) -> S] : \A i, j \in 1..Cardinality(S) : i # j => s[i] # s[j]}

\* num_proc=num_workers if num_workers else os.cpu_count()
NumProc(num_workers) == IF num_workers # 0 THEN num_workers ELSE MaxWorkers

\* from_generator: the number of jobs, and the contiguous group of shards of job j.
NumJobs(n, num_proc) == IF num_proc <= 1 \/ n <= 1 THEN 1 ELSE Min(num_proc, n)
GroupSize(n, k, j) == n \div k + (IF j - 1 < n % k THEN 1 ELSE 0)
RECURSIVE GroupStart(_, _, _)
GroupStart(n, k, j) == IF j = 1 THEN 1 ELSE GroupStart(n, k, j - 1) + GroupSize(n, k, j - 1)
\* Faulty variant: every job is handed the whole list of files.
JobShardsAll(files, k, j) == files

JobShards(files, k, j) ==
    SubSeq(files, GroupStart(Len(files), k, j),
           GroupStart(Len(files), k, j) + GroupSize(Len(files), k, j) - 1)

NewJob(shards) == [shards |-> shards, next |-> 1, shard |-> "", pending |-> <<>>, out |-> <<>>]
JobDone(j) == j.pending = <<>> /\ j.next > Len(j.shards)

RECURSIVE ConcatOut(_, _)
\* The materialized dataset: the jobs' outputs in job order.
ConcatOut(js, n) == IF n = 0 THEN <<>> ELSE ConcatOut(js, n - 1) \o js[n].out

\* hf_dataset.save_to_disk runs once from_generator has returned.
AllMaterialized == \A w \in 1..Len(jobs) : JobDone(jobs[w])

\* Entering build_dataset: line 89 builds the generator, which validates.
EnterBuild(b, offset, end, freq, nw) ==
    LET err == FromPolarsError(offset, end)
    IN  /\ call' = [builder |-> b, dataset |-> BuilderDataset(b), offset |-> offset,
                    end |-> end, freq |-> freq, num_workers |-> nw]
        /\ error' = err
        /\ phase' = IF err = "none" THEN "constructed" ELSE "raised"
        /\ polars_files' = <<>>
        /\ jobs' = <<>>
        /\ io' = NoIo
        /\ UNCHANGED <<folder, storage, loaded>>

\* Faulty variant: the failure path saves what has been materialized so far.
RaiseSavingPartial(err) ==
    /\ error' = err
    /\ phase' = "raised"
    /\ pc' = "failed"
    /\ storage' = [storage EXCEPT
                     ![call.dataset] = Persisted(call.dataset, ConcatOut(jobs, Len(jobs)))]

\* The exception leaves build_dataset and its caller: nothing catches it.
Raise(err) ==
    /\ error' = err
    /\ phase' = "raised"
    /\ pc' = "failed"
    /\ storage' = storage

\* Lines 90-101: list the directory, hand the files to from_generator.
ListFolder ==
    /\ phase = "constructed"
    /\ \E files \in Orders(MatchingNames) :
          /\ polars_files' = files
          /\ jobs' = LET k == NumJobs(Len(files), NumProc(call.num_workers))
                     IN  [j \in 1..k |-> NewJob(JobShards(files, k, j))]
    /\ io' = [io EXCEPT !.listed = TRUE]
    /\ phase' = "generating"
    /\ UNCHANGED <<folder, storage, pc, main_args, call, error, loaded>>

\* Lines 50-57 in job w: scan the next shard and slice it.
OpenShard(w) ==
    /\ phase = "generating"
    /\ w \in 1..Len(jobs)
    /\ jobs[w].pending = <<>>
    /\ jobs[w].next <= Len(jobs[w].shards)
    /\ LET shard == jobs[w].shards[jobs[w].next]
           lf == FileRows(shard)
           rows == Len(lf)
           offset_int == OffsetInt(rows, call.offset)
           length == SliceLength(rows, call.offset, call.end)
       IN  /\ io' = [io EXCEPT !.scanned = @ \cup {shard}]
           /\ IF length < 0
              THEN /\ Raise("ValueError_slice")
                   /\ jobs' = [jobs EXCEPT ![w].shard = shard]
              ELSE /\ jobs' = [jobs EXCEPT ![w].shard = shard,
                                           ![w].next = @ + 1,
                                           ![w].pending = Slice(lf, offset_int, length)]
                   /\ UNCHANGED <<pc, phase, error, storage>>
    /\ UNCHANGED <<folder, main_args, call, polars_files, loaded>>

\* Lines 59-62 in job w: reshape the next row and yield its record.
YieldRow(w) ==
    /\ phase = "generating"
    /\ w \in 1..Len(jobs)
    /\ jobs[w].pending # <<>>
    /\ LET row == Head(jobs[w].pending)
       IN  IF RowData(row).ok
           THEN /\ jobs' = [jobs EXCEPT ![w].pending = Tail(@),
                                        ![w].out = Append(@, Record(jobs[w].shard, row, call.freq))]
                /\ UNCHANGED <<pc, phase, error, storage>>
           ELSE /\ Raise("ValueError_reshape")
                /\ UNCHANGED jobs
    /\ UNCHANGED <<folder, main_args, call, polars_files, io, loaded>>

\* Lines 103-104: name the materialized dataset and save it.
SaveToDisk ==
    /\ phase = "generating"
    /\ AllMaterialized
    /\ storage' = [storage EXCEPT
                     ![call.dataset] = Persisted(call.dataset, ConcatOut(jobs, Len(jobs)))]
    /\ phase' = "returned"
    /\ UNCHANGED <<folder, pc, main_args, call, error, polars_files, jobs, io, loaded>>

(***************************************************************************)
(* load_dataset of the two builders.                                       *)
(***************************************************************************)
\* Faulty variant: a name that is not a key gets a default transform.
LoadResultDefault(b, transform_map) ==
    LET name == BuilderDataset(b)
    IN  IF ~storage[name].exists
        THEN [NoLoad EXCEPT !.builder = b, !.transform_map = transform_map,
                            !.error = "FileNotFoundError"]
        ELSE [builder |-> b, transform_map |-> transform_map, error |-> "none",
              transform |-> IF HasKey(transform_map, name) THEN transform_map[name]
                            ELSE "default",
              view |-> IF b = "eval" THEN "EvalDataset" ELSE "TimeSeriesDataset",
              dataset |-> storage[name]]

\* The arguments are evaluated left to right: the indexer over
\* datasets.load_from_disk(...) first, transform_map[self.dataset](...) after it.
LoadResult(b, transform_map) ==
    LET name == BuilderDataset(b)
        called == [NoLoad EXCEPT !.builder = b, !.transform_map = transform_map]
    IN  IF ~storage[name].exists
        THEN [called EXCEPT !.error = "FileNotFoundError"]
        ELSE IF ~HasKey(transform_map, name)
        THEN [called EXCEPT !.error = "KeyError"]
        ELSE [builder |-> b, transform_map |-> transform_map, error |-> "none",
              transform |-> transform_map[name],
              view |-> IF b = "eval" THEN "EvalDataset" ELSE "TimeSeriesDataset",
              dataset |-> storage[name]]

LoadDataset(b, transform_map) ==
    /\ pc \in {"done", "failed"}
    /\ loaded' = LoadResult(b, transform_map)
    /\ UNCHANGED <<folder, storage, pc, main_args, call, phase, error, polars_files, jobs, io>>

(***************************************************************************)
(* The callers: the driver build_datasets, and a caller of one builder.    *)
(***************************************************************************)
AfterEnter(err, running) == IF err = "none" THEN running ELSE "failed"

\* Lines 172-176: the training builder over [0, split_ratio).
BuildDatasets(split_ratio, freq) ==
    /\ pc = "start"
    /\ main_args' = [invoked |-> TRUE, split_ratio |-> split_ratio, freq |-> freq]
    /\ EnterBuild("train", Zero, split_ratio, freq, 0)
    /\ pc' = AfterEnter(FromPolarsError(Zero, split_ratio), "train")

\* Lines 178-179.
SkipEval == FreqEqualsOne(main_args.freq)

ReturnWithoutEval ==
    /\ pc = "train"
    /\ phase = "returned"
    /\ SkipEval
    /\ pc' = "done"
    /\ UNCHANGED <<folder, storage, main_args, call, phase, error, polars_files, jobs, io, loaded>>

\* Lines 181-194: the eval builder over [split_ratio, 1.0).
BuildEval ==
    /\ pc = "train"
    /\ phase = "returned"
    /\ ~SkipEval
    /\ EnterBuild("eval", main_args.split_ratio, One, main_args.freq, 0)
    /\ pc' = AfterEnter(FromPolarsError(main_args.split_ratio, One), "eval")
    /\ UNCHANGED main_args

\* A caller that builds one dataset with one builder.
DirectBuild(b, offset, end, num_workers) ==
    /\ pc = "start"
    /\ EnterBuild(b, offset, end, StrFreq("H"), num_workers)
    /\ pc' = AfterEnter(FromPolarsError(offset, end), "direct")
    /\ UNCHANGED main_args

\* The last build_dataset of the caller has returned.
Return ==
    /\ pc \in {"eval", "direct"}
    /\ phase = "returned"
    /\ pc' = "done"
    /\ UNCHANGED <<folder, storage, main_args, call, phase, error, polars_files, jobs, io, loaded>>

Init ==
    /\ folder \in Folders
    /\ storage = [n \in DatasetNames |-> Absent]
    /\ pc = "start"
    /\ main_args = NoArgs
    /\ call = NoCall
    /\ phase = "idle"
    /\ error = "none"
    /\ polars_files = <<>>
    /\ jobs = <<>>
    /\ io = NoIo
    /\ loaded = NoLoad

Next ==
    \/ \E r \in Fractions, f \in Freqs : BuildDatasets(r, f)
    \/ ReturnWithoutEval
    \/ BuildEval
    \/ \E b \in {"train", "eval"}, o \in Fractions, e \in Fractions, n \in 1..MaxWorkers :
          DirectBuild(b, o, e, n)
    \/ ListFolder
    \/ \E w \in 1..MaxWorkers : OpenShard(w)
    \/ \E w \in 1..MaxWorkers : YieldRow(w)
    \/ SaveToDisk
    \/ Return
    \/ \E b \in {"train", "eval"}, tm \in TransformMaps : LoadDataset(b, tm)

Spec == Init /\ [][Next]_vars

(***************************************************************************)
(* Properties.                                                             *)
(***************************************************************************)
InUnit(f) == 0 <= f.num /\ f.num <= f.den
Leq(f, g) == f.num * g.den <= g.num * f.den
Floor(rows, f) == (rows * f.num) \div f.den
AllNull(row) == \A c \in 1..Len(row.cols) : row.cols[c].null
IsNotNull(col) == ~col.null

\* The records of one shard in a record sequence, and their source rows.
RECURSIVE RecordsOf(_, _)
RecordsOf(recs, shard) ==
    IF recs = <<>> THEN <<>>
    ELSE IF Head(recs).item_id[1] = shard
         THEN <<Head(recs)>> \o RecordsOf(Tail(recs), shard)
         ELSE RecordsOf(Tail(recs), shard)
RowsOf(recs) == [i \in 1..Len(recs) |-> recs[i].item_id[2]]

\* The rows of a file with index in [floor(rows*offset), floor(rows*end)).
Range(rows, offset, end) ==
    SubSeq(rows, Floor(Len(rows), offset) + 1, Floor(Len(rows), end))

\* The rows job w has selected from the shard it has open: those it has
\* yielded and those still to come.
Selected(w) == RowsOf(RecordsOf(jobs[w].out, jobs[w].shard)) \o jobs[w].pending

\* C1: when the driver runs with split_ratio exactly 1.0, no eval build is
\* entered and no dataset named <dataset_name>_eval is written, whatever freq is.
C1_NoEvalAtSplitRatioOne ==
    (main_args.invoked /\ main_args.split_ratio = One)
        => (call.builder # "eval" /\ ~storage[EvalDatasetName].exists)

\* C2: a build_dataset call with offset or end outside [0, 1] has raised the
\* validation error with the directory not listed, no file scanned and nothing
\* written; a call with both inside [0, 1] has raised no validation error.
C2_ValidationBeforeAnyFile ==
    call.builder # "none" =>
        IF InUnit(call.offset) /\ InUnit(call.end)
        THEN error \notin {"ValueError_offset", "ValueError_end"}
        ELSE /\ phase = "raised"
             /\ error \in {"ValueError_offset", "ValueError_end"}
             /\ ~io.listed
             /\ io.scanned = {}
             /\ polars_files = <<>>
             /\ jobs = <<>>
             /\ ~storage[call.dataset].exists

C2_Witness ==
    /\ call.builder = "eval"
    /\ call.offset = One
    /\ GreaterThanOne(call.end)
    /\ error = "ValueError_end"

\* C3: for offset <= end in [0, 1], the rows a job selects from a file of
\* `rows` rows are exactly those with index in [floor(rows*offset),
\* floor(rows*end)): their count is the difference of the two floors, it is
\* not negative, the range is inside the file, and [0, 1] selects every row.
C3_SelectedRange ==
    \A w \in 1..Len(jobs) :
        (jobs[w].shard # "" /\ Leq(call.offset, call.end)) =>
            LET lf == FileRows(jobs[w].shard)
                lo == Floor(Len(lf), call.offset)
                hi == Floor(Len(lf), call.end)
            IN  /\ Selected(w) = [i \in 1..(hi - lo) |-> lf[lo + i]]
                /\ Len(Selected(w)) = hi - lo
                /\ hi - lo >= 0
                /\ 0 <= lo /\ hi <= Len(lf)
                /\ (call.offset = Zero /\ call.end = One) => Selected(w) = lf

C3_Witness ==
    \E w \in 1..Len(jobs) :
        /\ jobs[w].shard # ""
        /\ call.offset = Frac(1, 2)
        /\ call.end = Frac(4, 5)
        /\ Len(FileRows(jobs[w].shard)) = 3
        /\ jobs[w].pending = <<>>
        /\ Len(RecordsOf(jobs[w].out, jobs[w].shard)) = 1

\* The dataset persisted under name holds, of this shard, exactly the rows
\* [floor(rows*offset), floor(rows*end)), each with the driver's freq.
SplitHolds(name, shard, offset, end) ==
    LET recs == RecordsOf(storage[name].records, shard)
    IN  /\ storage[name].exists
        /\ RowsOf(recs) = Range(FileRows(shard), offset, end)
        /\ \A i \in 1..Len(recs) : recs[i].freq = main_args.freq

ExpectedTarget(row) ==
    LET present == SelectSeq(row.cols, IsNotNull)
    IN  [dtype |-> "float64",
         shape |-> <<Len(present), Len(present[1].vals)>>,
         data |-> ConcatUpTo(present, Len(present))]

\* C5: every yielded record of a row with k >= 1 non-null value columns has
\* a target of shape (k, L) whose rows are the non-null columns in order.
C5_TargetIsNonNullColumns ==
    \A w \in 1..Len(jobs) : \A i \in 1..Len(jobs[w].out) :
        LET row == jobs[w].out[i].item_id[2]
        IN  ~AllNull(row) => jobs[w].out[i].target = ExpectedTarget(row)

\* C6: the generator does not raise on a row whose value columns are all null.
C6_AllNullRowDoesNotRaise ==
    \A w \in 1..Len(jobs) :
        (jobs[w].pending # <<>> /\ AllNull(Head(jobs[w].pending)))
            => error # "ValueError_reshape"

\* C7: build_dataset on a directory with no regular .parquet file neither
\* returns nor writes a dataset.
C7_NoFilesNoDataset ==
    (call.builder # "none" /\ MatchingNames = {})
        => (phase # "returned" /\ ~storage[call.dataset].exists)

\* C8 (as stated): a load_dataset call whose dataset name is not a key of the
\* map has failed with the lookup error, and a call that succeeded used the
\* factory stored under the name.
C8_LookupErrorWheneverNotAKey ==
    loaded.builder # "none" =>
        LET name == BuilderDataset(loaded.builder)
        IN  /\ ~HasKey(loaded.transform_map, name) => loaded.error = "KeyError"
            /\ loaded.error = "none" => loaded.transform = loaded.transform_map[name]

\* The outcome of the last load_dataset call, by what is persisted under the
\* builder's dataset name and whether the name is a key of the map.
C8_LoadState ==
    loaded.builder # "none" =>
        LET name == BuilderDataset(loaded.builder)
            present == HasKey(loaded.transform_map, name)
        IN  /\ ~storage[name].exists
                => (loaded.error = "FileNotFoundError" /\ loaded.transform = "none")
            /\ (storage[name].exists /\ ~present)
                => (loaded.error = "KeyError" /\ loaded.transform = "none")
            /\ (storage[name].exists /\ present)
                => /\ loaded.error = "none"
                   /\ loaded.transform = loaded.transform_map[name]
                   /\ loaded.dataset = storage[name]
                   /\ loaded.view = (IF loaded.builder = "eval" THEN "EvalDataset"
                                     ELSE "TimeSeriesDataset")

LoadKeepsStorage == loaded' # loaded => storage' = storage

\* C8 (amended): a load_dataset call whose dataset name is not a key has
\* failed, with the lookup error when a dataset is persisted under the name
\* and with the file-not-found error of the earlier read when none is; no
\* transform other than the one stored under the name is ever used; and no
\* load_dataset call changes the storage.
C8_LoadFailsWithoutDefault ==
    /\ []C8_LoadState
    /\ [][LoadKeepsStorage]_vars

C8_Witness ==
    /\ loaded.builder = "eval"
    /\ storage[EvalDatasetName].exists
    /\ ~HasKey(loaded.transform_map, EvalDatasetName)
    /\ HasKey(loaded.transform_map, DatasetName)
    /\ loaded.error = "KeyError"

\* The positions of the jobs' shard lists.
ShardSlots == {<<w, i>> \in (1..Len(jobs)) \X (1..Len(polars_files)) : i <= Len(jobs[w].shards)}

\* C9: once the directory is listed every matching file is a shard of exactly
\* one job, and when build_dataset has returned the persisted dataset holds,
\* for every file, exactly the records of its selected rows in row order, and
\* no other record.
C9_EveryRowOnceInOrder ==
    /\ io.listed =>
          \A f \in MatchingNames :
              Cardinality({s \in ShardSlots : jobs[s[1]].shards[s[2]] = f}) = 1
    /\ phase = "returned" =>
          LET recs == storage[call.dataset].records
          IN  /\ storage[call.dataset].exists
              /\ \A f \in MatchingNames :
                    RecordsOf(recs, f) =
                        [i \in 1..Len(Range(FileRows(f), call.offset, call.end)) |->
                            Record(f, Range(FileRows(f), call.offset, call.end)[i], call.freq)]
              /\ \A i \in 1..Len(recs) : recs[i].item_id[1] \in MatchingNames
              /\ Len(recs) = Len(ConcatOut(jobs, Len(jobs)))

C9_Witness ==
    /\ phase = "returned"
    /\ Len(jobs) = 2
    /\ Len(jobs[1].out) >= 2
    /\ Len(jobs[2].out) >= 2
    /\ Len(storage[call.dataset].records) = Len(jobs[1].out) + Len(jobs[2].out)

GenerationErrors == {"ValueError_slice", "ValueError_reshape"}

C10_State ==
    error \in GenerationErrors =>
        /\ phase = "raised"
        /\ pc = "failed"
        /\ ~storage[call.dataset].exists

StaysFailed ==
    error \in GenerationErrors => (error' = error /\ storage' = storage /\ jobs' = jobs)

\* C10: when record generation has failed in a job, the failure has reached
\* the caller, nothing is persisted under the dataset name of the failed call,
\* and afterwards nothing is retried or written.
C10_FailureAbortsBuild ==
    /\ []C10_State
    /\ [][StaysFailed]_vars

C10_Witness ==
    /\ error = "ValueError_reshape"
    /\ Len(jobs) = 2
    /\ \E w \in 1..2 : jobs[w].out # <<>>
    /\ call.builder = "eval"
    /\ ~storage[EvalDatasetName].exists

====
